---- MODULE Spec2Model ----
(***************************************************************************)
(* Flight-map visualizer: the MapWrapper controller (map-wrapper.js, the   *)
(* last class of src/unnamed/part_001) driven by the callbacks of runApp   *)
(* (src/src/scripts/index.js), against the mapbox widget, the Stylings     *)
(* state holder and the DataProcessor.                                     *)
(*                                                                         *)
(* Stylings, DataProcessor and ThemeSelector are modules of the repository *)
(* whose code is not available; the parts of them the controller calls are *)
(* modelled from the specification (sections 3, 4.2, 4.4, 4.5).            *)
(*                                                                         *)
(* The widget is the external collaborator of section 6.  What the model   *)
(* takes from it: setStyle(url, {diff: false}) drops the sources, layers   *)
(* and paint state of the previous style at once ("the state is lost after *)
(* the setStyle() is called", part_001:512) and the new style announces    *)
(* itself later with a 'styledata' event; every later change of the style  *)
(* (addLayer, setPaintProperty) is followed by a further 'styledata'.      *)
(***************************************************************************)
EXTENDS Integers, Sequences, FiniteSets, TLC

\* ------------------------------------------------------------- bounds
NumCapitals == 3
NumThemes == 2
NumCategories == 2

\* the distances the classifier is checked on: 0..MaxDistanceKm
MaxDistanceKm == 6
\* the handlers registered with addMapInitialLoadHandler besides the
\* constructor's: at most MaxHandlers before 'load'
MaxHandlers == 1

Capitals == 1..NumCapitals
Themes == 1..NumThemes
Categories == 1..NumCategories

\* a capital name that is not in the catalog (a stale or invalid selection)
UnknownCapital == NumCapitals + 1

\* ------------------------------------------------- values of the model
\* "no capital": the DataProcessor before its data is loaded
NoCapital == 0
\* the falsy highLightedCategory ("none" selected), part_001:545
NoCategory == 0
\* theme of the Stylings instance at construction, part_001:415
DefaultTheme == 1
\* width in km of each distance category but the last (unbounded) one
CategoryWidthKm == 2
\* distance in km between neighbouring capitals of the catalog
KmPerStep == 1

\* the handler loadDataAndRender registers (part_001:430-434); the handlers
\* registered after it are numbered 1, 2, ... in the order of their calls
RenderHandler == 0

\* line-opacity of the 'route' layer: as added with Stylings.ROUTE_STYLES
\* (part_001:605), after Stylings.DEFAULT_LINES_OPACITY_STYLE (part_001:546),
\* and c for getLineOpacityWithHighLightedCategory(c) (part_001:549)
RouteStylesOpacity == -1
DefaultLinesOpacity == 0
\* paint of a layer that is not in the style
NoPaint == -2

\* hoverId = null
NoFeature == 0

VARIABLES
    map,              \* this._map: the mapbox widget
    styling,          \* this.styling: theme and highlighted category
    dataProcessor,    \* this.dataProcessor: catalog state, origin, arcs
    isLoaded,         \* this._isLoaded
    pointerListeners, \* hover/click listeners registered by _initialRender
    initialLoadHandlers, \* this._initialLoadHandlers
    invoked,          \* history: how often each initial-load handler was called
    hoverId,          \* let hoverId of render: the route feature marked as hovered
    arrivedInFlight,  \* history: the kinds of change that arrived during the
                      \* theme change in flight or just completed
    lastOp            \* history: what the last handler did

vars == <<map, styling, dataProcessor, isLoaded, pointerListeners,
          initialLoadHandlers, invoked, hoverId, arrivedInFlight, lastOp>>

loadVars == <<initialLoadHandlers, invoked>>

HandlerIds == 0..(MaxHandlers + 1)

Range(q) == {q[i] : i \in 1..Len(q)}

\* ------------------------------------------------ DistanceClassifier
Abs(x) == IF x < 0 THEN -x ELSE x

\* great-circle distance of two capitals of the catalog (symmetric, 0 on a = b)
distanceKm(a, b) == Abs(a - b) * KmPerStep

\* lower bound of category c; the upper bound is the next category's lower
\* bound, the last category is unbounded
minKm(c) == (c - 1) * CategoryWidthKm

\* mutant: the upper bound of a category is inclusive
matchesInclusive(c, d) ==
    /\ minKm(c) <= d
    /\ (c < NumCategories => d <= minKm(c + 1))

matches(c, d) ==
    /\ minKm(c) <= d
    /\ (c < NumCategories => d < minKm(c + 1))

classify(d) == CHOOSE c \in Categories : matches(c, d)

\* Stylings.getLineProperties(distance): the style of a line under the
\* current theme of the Stylings instance
getLineProperties(st, d) == [theme |-> st.theme, category |-> classify(d)]

\* ----------------------------------------------------- DataProcessor
ArcFeature(st, o, c) ==
    [origin |-> o, dest |-> c, distance |-> distanceKm(o, c),
     style |-> getLineProperties(st, distanceKm(o, c))]

\* mutant: the origin is not left out of the destinations
buildArcsWithOrigin(st, o) == {ArcFeature(st, o, c) : c \in Capitals}

\* one arc per capital other than the origin
buildArcs(st, o) == {ArcFeature(st, o, c) : c \in Capitals \ {o}}

\* mutant: a name that is not in the catalog is selected like any other
setSelectedCapitalNoLookup(dp, st, name) ==
    IF name = dp.selectedCapital
    THEN [dp |-> dp, changed |-> FALSE]
    ELSE [dp |-> [dp EXCEPT !.selectedCapital = name,
                            !.arcLines = buildArcs(st, name)],
          changed |-> TRUE]

\* DataProcessor.setSelectedCapital(name): [dp, changed].  The lookup miss
\* of a name that is not in the catalog is swallowed: a no-op
setSelectedCapital(dp, st, name) ==
    IF name \notin Capitals \/ name = dp.selectedCapital
    THEN [dp |-> dp, changed |-> FALSE]
    ELSE [dp |-> [dp EXCEPT !.selectedCapital = name,
                            !.arcLines = buildArcs(st, name)],
          changed |-> TRUE]

\* ------------------------------------------------------------ Stylings
setTheme(st, t) == [st EXCEPT !.theme = t]

setHighLightedCategory(st, c) == [st EXCEPT !.highLightedCategory = c]

getLineOpacityWithHighLightedCategory(c) == c

\* ---------------------------------------------------------- MapWrapper
Op(op, arg, changed, pushed, notice, ran) ==
    [op |-> op, arg |-> arg, changed |-> changed, pushed |-> pushed,
     notice |-> notice, ran |-> ran]

\* mutant: no look at _isLoaded
addMapInitialLoadHandlerNoGuard(loaded, handlers, callBack) ==
    Append(handlers, callBack)

\* addMapInitialLoadHandler(callBack): the handlers after the call
addMapInitialLoadHandler(loaded, handlers, callBack) ==
    IF loaded THEN handlers ELSE Append(handlers, callBack)

\* _addSourceAndLayers(routes): the 'capitals' layer, the 'route' source and
\* the 'route' layer, the latter with the paint of Stylings.ROUTE_STYLES
addSourceAndLayers(m, routes) ==
    [m EXCEPT !.layers = {"capitals", "route"},
              !.routeAttached = TRUE,
              !.routeData = routes,
              !.opacity = RouteStylesOpacity,
              !.conflict = @ \/ m.routeAttached \/ m.layers # {},
              !.dirty = TRUE]

\* mutant: the highlight is applied by filtering the data of the source
highLightLinesByFilter(m, st) ==
    IF "route" \notin m.layers THEN m
    ELSE [m EXCEPT !.routeData =
                     {f \in @ : st.highLightedCategory \in {NoCategory, f.style.category}},
                   !.dirty = TRUE]

\* highLightLines(): setPaintProperty on the 'route' layer; a layer that is
\* not in the style cannot be painted
highLightLines(m, st) ==
    IF "route" \notin m.layers THEN m
    ELSE [m EXCEPT !.opacity =
                     IF st.highLightedCategory = NoCategory
                     THEN DefaultLinesOpacity
                     ELSE getLineOpacityWithHighLightedCategory(st.highLightedCategory),
                   !.dirty = TRUE]

\* _moveCenterTo(coordinates): flyTo
moveCenterTo(m, c) == [m EXCEPT !.center = c]

\* mutant: feature.properties is assigned the line properties alone, the
\* properties it had are not spread into it
recomputeStylesNoSpread(routesInfo, st) ==
    {[f EXCEPT !.style = getLineProperties(st, f.distance),
               !.origin = NoCapital,
               !.distance = 0] : f \in routesInfo}

\* the forEach of the styledata handler: the style properties of every
\* feature of the snapshot, recomputed under the current theme
recomputeStyles(routesInfo, st) ==
    {[f EXCEPT !.style = getLineProperties(st, f.distance)] : f \in routesInfo}

\* mutant: the highlight is not reapplied after the reattach
styledataHandlerNoHighlight(m, st, prevRouteSource) ==
    addSourceAndLayers(m, recomputeStyles(prevRouteSource, st))

\* mutant: the snapshot is reattached as it was, styles not recomputed
styledataHandlerNoRecompute(m, st, prevRouteSource) ==
    highLightLines(addSourceAndLayers(m, prevRouteSource), st)

\* the once('styledata') handler of changeTheme, closed over prevRouteSource
styledataHandler(m, st, prevRouteSource) ==
    highLightLines(addSourceAndLayers(m, recomputeStyles(prevRouteSource, st)), st)

\* mutant: no check that the 'route' source is attached
changeThemeNoGuard(m, theme) ==
    [map |-> [m EXCEPT !.style = theme,
                       !.styleLoaded = FALSE,
                       !.layers = {},
                       !.routeAttached = FALSE,
                       !.routeData = {},
                       !.hover = {},
                       !.opacity = NoPaint,
                       !.dirty = FALSE,
                       !.once = Append(@, m.routeData)],
     changed |-> TRUE, notice |-> ""]

\* mutant: the style swap is requested and no 'styledata' listener registered
changeThemeNoListener(m, theme) ==
    IF ~m.routeAttached
    THEN [map |-> m, changed |-> FALSE, notice |-> "Layer not found"]
    ELSE [map |-> [m EXCEPT !.style = theme,
                            !.styleLoaded = FALSE,
                            !.layers = {},
                            !.routeAttached = FALSE,
                            !.routeData = {},
                            !.hover = {},
                            !.opacity = NoPaint,
                            !.dirty = FALSE],
          changed |-> TRUE, notice |-> ""]

\* mutant: the style swap is requested before the look at the 'route' source
changeThemeSwapsBeforeGuard(m, theme) ==
    IF ~m.routeAttached
    THEN [map |-> [m EXCEPT !.style = theme,
                            !.styleLoaded = FALSE,
                            !.layers = {},
                            !.opacity = NoPaint,
                            !.dirty = FALSE],
          changed |-> FALSE, notice |-> "Layer not found"]
    ELSE [map |-> [m EXCEPT !.style = theme,
                            !.styleLoaded = FALSE,
                            !.layers = {},
                            !.routeAttached = FALSE,
                            !.routeData = {},
                            !.hover = {},
                            !.opacity = NoPaint,
                            !.dirty = FALSE,
                            !.once = Append(@, m.routeData)],
          changed |-> TRUE, notice |-> ""]

\* changeTheme(theme): [map, changed, notice]
changeTheme(m, theme) ==
    IF ~m.routeAttached
    THEN [map |-> m, changed |-> FALSE, notice |-> "Layer not found"]
    ELSE [map |-> [m EXCEPT !.style = theme,
                            !.styleLoaded = FALSE,
                            !.layers = {},
                            !.routeAttached = FALSE,
                            !.routeData = {},
                            !.hover = {},
                            !.opacity = NoPaint,
                            !.dirty = FALSE,
                            !.once = Append(@, m.routeData)],
          changed |-> TRUE, notice |-> ""]

\* mutant: the result of setSelectedCapital is not looked at
replaceSelectedCapitalNoReturn(m, dp, st, name) ==
    LET r == setSelectedCapital(dp, st, name) IN
    IF ~m.routeAttached
    THEN [map |-> m, dp |-> r.dp, changed |-> r.changed, pushed |-> FALSE,
          notice |-> "Route source is not found"]
    ELSE [map |-> [m EXCEPT !.routeData = r.dp.arcLines], dp |-> r.dp,
          changed |-> r.changed, pushed |-> TRUE, notice |-> ""]

\* _replaceSelectedCapital(newSelectedCapital): [map, dp, changed, pushed, notice]
replaceSelectedCapital(m, dp, st, name) ==
    LET r == setSelectedCapital(dp, st, name) IN
    IF ~r.changed
    THEN [map |-> m, dp |-> r.dp, changed |-> FALSE, pushed |-> FALSE, notice |-> ""]
    ELSE IF ~m.routeAttached
    THEN [map |-> m, dp |-> r.dp, changed |-> TRUE, pushed |-> FALSE,
          notice |-> "Route source is not found"]
    ELSE [map |-> [m EXCEPT !.routeData = r.dp.arcLines], dp |-> r.dp,
          changed |-> TRUE, pushed |-> TRUE, notice |-> ""]

\* the listeners of one delivery of 'styledata', run in registration order
RECURSIVE runHandlers(_, _, _)
runHandlers(m, st, listeners) ==
    IF listeners = <<>> THEN m
    ELSE runHandlers(styledataHandler(m, st, Head(listeners)), st, Tail(listeners))

\* mutant: the listeners are registered with on('styledata') and stay
fireStyledataOn(m, st) == runHandlers(m, st, m.once)

\* one delivery of 'styledata': every once-listener is removed and run
fireStyledata(m, st) == runHandlers([m EXCEPT !.once = <<>>], st, m.once)

\* feature.id of a route feature: one id per destination capital
featureId(f) == f.dest

\* the 'mouseenter' handler of the 'route' layer: [map, hoverId]
routeMouseEnter(m, id, features) ==
    IF Len(features) = 0
    THEN [map |-> m, hoverId |-> id]
    ELSE [map |-> [m EXCEPT !.hover = @ \cup {Head(features)}],
          hoverId |-> Head(features)]

\* mutant: hoverId is reset, the feature state is not
routeMouseLeaveKeepsState(m, id) ==
    IF id # NoFeature
    THEN [map |-> m, hoverId |-> NoFeature]
    ELSE [map |-> m, hoverId |-> id]

\* the 'mouseleave' handler of the 'route' layer: [map, hoverId]
routeMouseLeave(m, id) ==
    IF id # NoFeature
    THEN [map |-> [m EXCEPT !.hover = @ \ {id}], hoverId |-> NoFeature]
    ELSE [map |-> m, hoverId |-> id]

\* ---------------------------------------------------------------- Init
\* mutant: the constructor starts the data load itself, as the earlier class
\* did (part_001:200-202), without waiting for 'load'
InitLoadsAtOnce ==
    /\ map = [style |-> DefaultTheme, styleLoaded |-> FALSE, layers |-> {},
              routeAttached |-> FALSE, routeData |-> {}, opacity |-> NoPaint,
              once |-> <<>>, dirty |-> FALSE, conflict |-> FALSE,
              center |-> NoCapital, hover |-> {}, mousein |-> FALSE]
    /\ styling = [theme |-> DefaultTheme, highLightedCategory |-> NoCategory]
    /\ dataProcessor = [loadState |-> "pending", selectedCapital |-> NoCapital,
                        arcLines |-> {}]
    /\ isLoaded = FALSE
    /\ pointerListeners = FALSE
    /\ initialLoadHandlers = addMapInitialLoadHandler(FALSE, <<>>, RenderHandler)
    /\ invoked = [h \in HandlerIds |-> 0]
    /\ hoverId = NoFeature
    /\ arrivedInFlight = {}
    /\ lastOp = Op("init", 0, FALSE, FALSE, "", 0)

Init ==
    /\ map = [style |-> DefaultTheme, styleLoaded |-> FALSE, layers |-> {},
              routeAttached |-> FALSE, routeData |-> {}, opacity |-> NoPaint,
              once |-> <<>>, dirty |-> FALSE, conflict |-> FALSE,
              center |-> NoCapital, hover |-> {}, mousein |-> FALSE]
    /\ styling = [theme |-> DefaultTheme, highLightedCategory |-> NoCategory]
    /\ dataProcessor = [loadState |-> "idle", selectedCapital |-> NoCapital,
                        arcLines |-> {}]
    /\ isLoaded = FALSE
    /\ pointerListeners = FALSE
    /\ initialLoadHandlers = addMapInitialLoadHandler(FALSE, <<>>, RenderHandler)
    /\ invoked = [h \in HandlerIds |-> 0]
    /\ hoverId = NoFeature
    /\ arrivedInFlight = {}
    /\ lastOp = Op("init", 0, FALSE, FALSE, "", 0)

\* ------------------------------------------------------------- actions
\* the theme axis: a style swap was requested and the widget has not yet
\* signalled that the new style is ready
ThemeChanging == isLoaded /\ ~map.styleLoaded

\* the widget's 'load' event: _loadMapInitially's once('load') listener and
\* the handler loadDataAndRender registered, which starts the data load
MapLoad ==
    /\ ~isLoaded
    /\ isLoaded' = TRUE
    /\ map' = [map EXCEPT !.styleLoaded = TRUE]
    /\ invoked' = [h \in HandlerIds |->
                     invoked[h] + Cardinality({i \in 1..Len(initialLoadHandlers) :
                                                 initialLoadHandlers[i] = h})]
    /\ dataProcessor' = IF RenderHandler \in Range(initialLoadHandlers)
                        THEN [dataProcessor EXCEPT !.loadState = "pending"]
                        ELSE dataProcessor
    /\ lastOp' = Op("load", 0, FALSE, FALSE, "", 0)
    /\ UNCHANGED <<styling, pointerListeners, arrivedInFlight, initialLoadHandlers>>
    /\ UNCHANGED hoverId

\* a call of the public addMapInitialLoadHandler with a new handler
AddMapInitialLoadHandler ==
    /\ Len(initialLoadHandlers) <= (IF isLoaded THEN MaxHandlers + 1 ELSE MaxHandlers)
    /\ LET h == Len(initialLoadHandlers)
           hs == addMapInitialLoadHandler(isLoaded, initialLoadHandlers, h)
       IN /\ initialLoadHandlers' = hs
          /\ lastOp' = Op("addHandler", h, hs # initialLoadHandlers, FALSE,
                          IF isLoaded THEN "Map is already loaded once" ELSE "", 0)
    /\ UNCHANGED <<map, styling, dataProcessor, isLoaded, pointerListeners,
                   invoked, arrivedInFlight>>
    /\ UNCHANGED hoverId

\* dataProcessor.load() resolves: _initialRender
DataLoadOk ==
    /\ dataProcessor.loadState = "pending"
    /\ \E o \in Capitals :
         /\ dataProcessor' = [loadState |-> "loaded", selectedCapital |-> o,
                              arcLines |-> buildArcs(styling, o)]
         /\ map' = addSourceAndLayers(moveCenterTo(map, o), buildArcs(styling, o))
    /\ pointerListeners' = TRUE
    /\ lastOp' = Op("dataOk", 0, FALSE, FALSE, "", 0)
    /\ UNCHANGED loadVars
    /\ UNCHANGED <<styling, isLoaded, arrivedInFlight>>
    /\ UNCHANGED hoverId

\* mutant: .catch(notify).then(this._initialRender), the render follows the
\* notification
DataLoadFailThenRender ==
    /\ dataProcessor.loadState = "pending"
    /\ dataProcessor' = [dataProcessor EXCEPT !.loadState = "failed"]
    /\ map' = addSourceAndLayers(map, dataProcessor.arcLines)
    /\ pointerListeners' = TRUE
    /\ lastOp' = Op("dataFail", 0, FALSE, FALSE, "load failed", 0)
    /\ UNCHANGED loadVars
    /\ UNCHANGED <<styling, isLoaded, arrivedInFlight>>
    /\ UNCHANGED hoverId

\* dataProcessor.load() rejects: .catch(notify)
DataLoadFail ==
    /\ dataProcessor.loadState = "pending"
    /\ dataProcessor' = [dataProcessor EXCEPT !.loadState = "failed"]
    /\ lastOp' = Op("dataFail", 0, FALSE, FALSE, "load failed", 0)
    /\ UNCHANGED loadVars
    /\ UNCHANGED <<map, styling, isLoaded, pointerListeners, arrivedInFlight>>
    /\ UNCHANGED hoverId

\* the themeChange callback of runApp: styling.setTheme(theme), then
\* mapWrapper.changeTheme(theme)
ThemeChange(t) ==
    /\ isLoaded
    /\ LET st == setTheme(styling, t)
           r == changeTheme(map, t)
       IN /\ styling' = st
          /\ map' = r.map
          /\ arrivedInFlight' = IF ThemeChanging THEN arrivedInFlight \cup {"theme"}
                                ELSE {}
          /\ lastOp' = Op("theme", t, r.changed, FALSE, r.notice, 0)
    /\ UNCHANGED loadVars
    /\ UNCHANGED <<dataProcessor, isLoaded, pointerListeners>>
    /\ UNCHANGED hoverId

\* the colorHighlighterChange callback of runApp
HighlightChange(c) ==
    /\ isLoaded
    /\ LET st == setHighLightedCategory(styling, c)
       IN /\ styling' = st
          /\ map' = highLightLines(map, st)
    /\ arrivedInFlight' = IF ThemeChanging THEN arrivedInFlight \cup {"highlight"}
                          ELSE {}
    /\ lastOp' = Op("highlight", c, FALSE, FALSE, "", 0)
    /\ UNCHANGED loadVars
    /\ UNCHANGED <<dataProcessor, isLoaded, pointerListeners>>
    /\ UNCHANGED hoverId

\* a click on a capital marker: _displayAllFlightsFromChosenCapital
CapitalClick(name) ==
    /\ pointerListeners
    /\ LET r == replaceSelectedCapital(moveCenterTo(map, name), dataProcessor,
                                       styling, name)
       IN /\ map' = r.map
          /\ dataProcessor' = r.dp
          /\ arrivedInFlight' = IF ~ThemeChanging THEN {}
                                ELSE IF r.changed THEN arrivedInFlight \cup {"origin"}
                                ELSE arrivedInFlight
          /\ lastOp' = Op("click", name, r.changed, r.pushed, r.notice, 0)
    /\ UNCHANGED loadVars
    /\ UNCHANGED <<styling, isLoaded, pointerListeners>>
    /\ UNCHANGED hoverId

\* the widget delivers 'styledata': the new style is ready, or the style
\* changed since the last delivery
StyleData ==
    /\ isLoaded
    /\ ~map.styleLoaded \/ map.dirty
    /\ map' = fireStyledata([map EXCEPT !.styleLoaded = TRUE, !.dirty = FALSE],
                            styling)
    /\ lastOp' = Op("styledata", 0, FALSE, FALSE, "", Len(map.once))
    /\ UNCHANGED loadVars
    /\ UNCHANGED <<styling, dataProcessor, isLoaded, pointerListeners, arrivedInFlight>>
    /\ UNCHANGED hoverId

\* the pointer moves over the map, to the route feature `target` or to a
\* place with no route feature (NoFeature).  The widget delivers 'mouseenter'
\* of a layer when the pointer comes onto a feature of the layer from outside
\* the layer, 'mouseleave' when it leaves the layer's features, and nothing
\* when it goes from one feature of the layer to another.
RoutePointerMove(target) ==
    /\ pointerListeners
    /\ target # NoFeature => ("route" \in map.layers
                              /\ target \in {featureId(f) : f \in map.routeData})
    /\ IF target # NoFeature /\ ~map.mousein
       THEN LET r == routeMouseEnter([map EXCEPT !.mousein = TRUE], hoverId,
                                     <<target>>)
            IN /\ map' = r.map
               /\ hoverId' = r.hoverId
               /\ lastOp' = Op("mouseenter", target, FALSE, FALSE, "", 0)
       ELSE IF target = NoFeature /\ map.mousein
       THEN LET r == routeMouseLeave([map EXCEPT !.mousein = FALSE], hoverId)
            IN /\ map' = r.map
               /\ hoverId' = r.hoverId
               /\ lastOp' = Op("mouseleave", 0, FALSE, FALSE, "", 0)
       ELSE /\ lastOp' = Op("mousemove", target, FALSE, FALSE, "", 0)
            /\ UNCHANGED <<map, hoverId>>
    /\ UNCHANGED loadVars
    /\ UNCHANGED <<styling, dataProcessor, isLoaded, pointerListeners, arrivedInFlight>>

Next ==
    \/ MapLoad
    \/ DataLoadOk
    \/ DataLoadFail
    \/ \E t \in Themes : ThemeChange(t)
    \/ \E c \in Categories \cup {NoCategory} : HighlightChange(c)
    \/ \E n \in Capitals \cup {UnknownCapital} : CapitalClick(n)
    \/ StyleData

Spec == Init /\ [][Next]_vars

\* the widget delivers the style-ready signal of every style swap
FairSpec == Spec /\ WF_vars(StyleData)

\* the startup protocol with callers of the public addMapInitialLoadHandler.
\* A style swap neither reads nor writes the load guard or the list of
\* initial-load handlers, so theme changes are left to Spec.
NextLoad ==
    \/ MapLoad
    \/ AddMapInitialLoadHandler
    \/ DataLoadOk
    \/ DataLoadFail
    \/ \E c \in Categories \cup {NoCategory} : HighlightChange(c)
    \/ \E n \in Capitals \cup {UnknownCapital} : CapitalClick(n)
    \/ StyleData

LoadSpec == Init /\ [][NextLoad]_vars

\* the pointer moving over the 'route' layer, with the handlers that attach,
\* replace or drop the 'route' source and its feature states.  The highlight
\* only sets a paint property and is left to Spec.
NextHover ==
    \/ MapLoad
    \/ DataLoadOk
    \/ DataLoadFail
    \/ \E t \in Themes : ThemeChange(t)
    \/ \E n \in Capitals : CapitalClick(n)
    \/ StyleData
    \/ \E target \in Capitals \cup {NoFeature} : RoutePointerMove(target)

HoverSpec == Init /\ [][NextHover]_vars

\* ============================================================== claims
\* the theme change has completed in this state: the last step delivered
\* 'styledata' to the handler of a changeTheme
SwapCompleted == lastOp.op = "styledata" /\ lastOp.ran > 0

\* the opacity expression highLightLines sets for highlighted category c
OpacityFor(c) == IF c = NoCategory THEN DefaultLinesOpacity ELSE c

AllAttached == map.routeAttached /\ map.layers = {"capitals", "route"}

\* C1: when a changeTheme(T2) was triggered while an earlier changeTheme(T1)
\* was waiting for its style-ready signal, then once the widget has delivered
\* the signal and the route data is attached again, the style shown and the
\* styles of the attached routes are those of the latest requested theme
\* (styling.theme, set by the themeChange callback just before changeTheme).
C1_LatestThemeWins ==
    ("theme" \in arrivedInFlight /\ ~ThemeChanging /\ map.routeAttached)
        => /\ map.style = styling.theme
           /\ \A f \in map.routeData : f.style.theme = styling.theme

C3_HighlightSurvivesThemeChange ==
    /\ SwapCompleted => ("route" \in map.layers
                         /\ map.opacity = OpacityFor(styling.highLightedCategory))
    /\ ("route" \in map.layers /\ map.opacity # RouteStylesOpacity)
           => map.opacity = OpacityFor(styling.highLightedCategory)

C3_Witness ==
    /\ SwapCompleted
    /\ "highlight" \in arrivedInFlight
    /\ styling.highLightedCategory # NoCategory
    /\ map.opacity = styling.highLightedCategory

\* C4: a changeTheme triggered while a theme change is pending is rejected
\* ("Layer not found"): it issues no style swap and registers no listener, so
\* at most one completion handler is ever waiting.
C4_NoInterleavedThemeChange ==
    /\ [](Len(map.once) <= 1)
    /\ [][(ThemeChanging /\ lastOp'.op = "theme")
            => (/\ ~lastOp'.changed
                /\ lastOp'.notice = "Layer not found"
                /\ map' = map)]_vars

C4_Witness ==
    /\ lastOp.op = "theme"
    /\ ~lastOp.changed
    /\ "theme" \in arrivedInFlight
    /\ Len(map.once) = 1
    /\ ThemeChanging

\* C5: the order of a theme change.  The step that requests the swap leaves
\* the data that was attached before it in the waiting handler and nothing
\* attached; while the handler waits nothing is attached and only the
\* style-ready signal attaches again; the completing step attaches the
\* snapshot with the style of every feature recomputed under the current
\* theme, both layers, and the opacity of the current highlighted category
\* (set after the layer was added).
C5_ThemeChangeOrder ==
    /\ [](Len(map.once) > 0 => (~map.routeAttached /\ map.layers = {}))
    /\ [][/\ (lastOp'.op = "theme" /\ lastOp'.changed)
               => (/\ map.routeAttached
                   /\ map'.once = <<map.routeData>>
                   /\ ~map'.styleLoaded
                   /\ ~map'.routeAttached)
          /\ (Len(map.once) > 0 /\ map'.routeAttached)
               => (lastOp'.op = "styledata" /\ map'.styleLoaded)
          /\ (lastOp'.op = "styledata" /\ Len(map.once) = 1)
               => (/\ map'.routeData =
                        {[f EXCEPT !.style = [theme |-> styling.theme,
                                              category |-> classify(f.distance)]]
                            : f \in Head(map.once)}
                   /\ map'.layers = {"capitals", "route"}
                   /\ map'.routeAttached
                   /\ map'.opacity = OpacityFor(styling.highLightedCategory))
         ]_vars

C5_Witness ==
    /\ SwapCompleted
    /\ AllAttached
    /\ styling.theme # DefaultTheme
    /\ map.routeData # {}
    /\ \A f \in map.routeData : f.style.theme = styling.theme

\* C6: a capital activation that names the current origin is a no-op:
\* setSelectedCapital returns false, the DataProcessor is unchanged, no
\* setData and no notification is sent, and nothing of the widget changes
\* but the camera, which flies to the capital clicked.
C6_SameOriginNoOp ==
    [][(lastOp'.op = "click" /\ lastOp'.arg = dataProcessor.selectedCapital)
         => (/\ ~lastOp'.changed
             /\ ~lastOp'.pushed
             /\ lastOp'.notice = ""
             /\ dataProcessor' = dataProcessor
             /\ map' = [map EXCEPT !.center = lastOp'.arg])]_vars

C6_Witness ==
    /\ lastOp.op = "click"
    /\ ~lastOp.changed
    /\ lastOp.arg = dataProcessor.selectedCapital
    /\ map.routeAttached

\* C7: once the data is loaded, arcLines holds exactly one arc per capital
\* other than the selected one, |catalog| - 1 arcs, each starting at the
\* selected capital; and a setSelectedCapital for a different capital of the
\* catalog returns true and selects it.
C7_OneArcPerOtherCapital ==
    /\ [](dataProcessor.loadState = "loaded"
            => /\ dataProcessor.selectedCapital \in Capitals
               /\ Cardinality(dataProcessor.arcLines) = NumCapitals - 1
               /\ {f.dest : f \in dataProcessor.arcLines}
                      = Capitals \ {dataProcessor.selectedCapital}
               /\ \A f \in dataProcessor.arcLines :
                      f.origin = dataProcessor.selectedCapital)
    /\ [][(lastOp'.op = "click" /\ lastOp'.arg \in Capitals
                                 /\ lastOp'.arg # dataProcessor.selectedCapital)
            => (lastOp'.changed /\ dataProcessor'.selectedCapital = lastOp'.arg)]_vars

C7_Witness ==
    /\ lastOp.op = "click"
    /\ lastOp.changed
    /\ dataProcessor.selectedCapital = lastOp.arg
    /\ Cardinality(dataProcessor.arcLines) = NumCapitals - 1

C9_HighlightPaintOnly ==
    [][lastOp'.op = "highlight"
         => (/\ map' = [map EXCEPT !.opacity = map'.opacity, !.dirty = map'.dirty]
             /\ dataProcessor' = dataProcessor
             /\ styling' = [styling EXCEPT !.highLightedCategory = lastOp'.arg]
             /\ ("route" \in map.layers => map'.opacity = OpacityFor(lastOp'.arg))
             /\ ("route" \notin map.layers => map'.opacity = map.opacity))]_vars

C9_Witness ==
    /\ lastOp.op = "highlight"
    /\ lastOp.arg # NoCategory
    /\ map.opacity = lastOp.arg
    /\ \E f \in map.routeData : f.style.category # lastOp.arg

\* C10: the theme axis leaves ThemeChanging only by a delivery of
\* 'styledata'; when the widget delivers it (weak fairness of StyleData),
\* every requested swap leads back to Idle with the 'route' source, the
\* 'route' layer and the 'capitals' layer attached.
C10_ThemeChangingEndsOnStyleReady ==
    /\ ThemeChanging ~> (~ThemeChanging /\ Len(map.once) = 0 /\ AllAttached)
    /\ [][(ThemeChanging /\ ~ThemeChanging') => lastOp'.op = "styledata"]_vars
    /\ [][(ThemeChanging /\ lastOp'.op # "styledata")
            => (map'.once = map.once /\ ~map'.routeAttached)]_vars

C10_Witness ==
    /\ SwapCompleted
    /\ ~ThemeChanging
    /\ Len(map.once) = 0
    /\ AllAttached
    /\ arrivedInFlight = {}

\* C11: a theme-change request resolves at most once.  A delivery of
\* 'styledata' runs at most one completion handler and leaves none
\* registered; a delivery while no style swap is pending (the signals that
\* follow addLayer and setPaintProperty) runs no handler and reattaches
\* nothing.
C11_ResolvesAtMostOnce ==
    [][lastOp'.op = "styledata"
         => (/\ lastOp'.ran <= 1
             /\ map'.once = <<>>
             /\ ~ThemeChanging
                   => (/\ lastOp'.ran = 0
                       /\ map' = [map EXCEPT !.dirty = FALSE]))]_vars

C11_Witness ==
    /\ lastOp.op = "styledata"
    /\ lastOp.ran = 0
    /\ AllAttached
    /\ map.style # DefaultTheme
    /\ ~map.dirty

\* C12: selecting the theme that is already current is detected as a no-op:
\* no style swap is requested and nothing of the widget changes.
C12_SameThemeNoRedraw ==
    [][(lastOp'.op = "theme" /\ lastOp'.arg = styling.theme)
         => (~lastOp'.changed /\ map' = map)]_vars

C14_LoadFailureAbortsStartup ==
    /\ [](dataProcessor.loadState = "failed"
             => (/\ ~map.routeAttached
                 /\ map.layers = {}
                 /\ map.routeData = {}
                 /\ ~pointerListeners))
    /\ [][lastOp'.op = "dataFail"
            => (/\ dataProcessor.loadState = "pending"
                /\ lastOp'.notice # ""
                /\ map' = map)]_vars
    /\ [][dataProcessor.loadState = "failed"
            => (/\ dataProcessor'.loadState = "failed"
                /\ lastOp'.op \notin {"dataFail", "dataOk", "load"})]_vars

C14_Witness ==
    /\ dataProcessor.loadState = "failed"
    /\ lastOp.op = "theme"
    /\ lastOp.notice = "Layer not found"
    /\ map.layers = {}
    /\ ~pointerListeners

\* the categories whose range holds distance d
CategoriesOf(d) == {c \in Categories : minKm(c) <= d
                                        /\ (c < NumCategories => d < minKm(c + 1))}

\* C15: for every distance 0..MaxDistanceKm exactly one category matches
\* and classify returns it; every arc held by the DataProcessor or attached
\* to the widget carries exactly the one category of its distance.
C15_ClassifyTotalExclusive ==
    /\ \A d \in 0..MaxDistanceKm :
          /\ Cardinality({c \in Categories : matches(c, d)}) = 1
          /\ matches(classify(d), d)
    /\ \A f \in map.routeData \cup dataProcessor.arcLines :
          /\ f.distance >= 0
          /\ Cardinality({c \in Categories : matches(c, f.distance)}) = 1
          /\ CategoriesOf(f.distance) = {f.style.category}

C15_Witness ==
    /\ map.routeAttached
    /\ \E f, g \in map.routeData : f.style.category # g.style.category
    /\ \A f \in map.routeData : matches(f.style.category, f.distance)

\* a feature without its style properties
Unstyled(f) == [origin |-> f.origin, dest |-> f.dest, distance |-> f.distance]

\* C16: the route data reattached on completion of a theme swap holds the
\* features of the snapshot taken before the swap, as many and each with the
\* origin, destination (geometry) and distance it had; only style properties
\* differ.
C16_ThemeChangePreservesArcs ==
    [][(lastOp'.op = "styledata" /\ Len(map.once) = 1)
         => (/\ {Unstyled(f) : f \in map'.routeData}
                    = {Unstyled(f) : f \in Head(map.once)}
             /\ Cardinality(map'.routeData) = Cardinality(Head(map.once)))]_vars

C16_Witness ==
    /\ SwapCompleted
    /\ AllAttached
    /\ {Unstyled(f) : f \in map.routeData}
           = {Unstyled(f) : f \in dataProcessor.arcLines}
    /\ map.routeData # dataProcessor.arcLines
    /\ arrivedInFlight = {}

\* C17: whenever no theme change is pending, the theme recorded in the
\* Stylings instance is the theme of the style the widget shows.
C17_RecordedThemeIsShownTheme ==
    ~ThemeChanging => styling.theme = map.style

\* C18: _addSourceAndLayers never adds the 'capitals' layer, the 'route'
\* source or the 'route' layer to a style that already holds one of them.
C18_NoDuplicateSourceOrLayer ==
    /\ ~map.conflict
    /\ lastOp.ran <= 1
    /\ (Len(map.once) > 0 => (~map.routeAttached /\ map.layers = {}))

C18_Witness ==
    /\ SwapCompleted
    /\ AllAttached
    /\ "theme" \in arrivedInFlight
    /\ ~map.conflict

\* C19: startup is ordered and happens once.  The data load is started by
\* the 'load' event and not before; the initial render (sources, layers,
\* pointer listeners) is the step that ends a successful load, after 'load',
\* and it happens in no other step and not again.
C19_StartupOrderedOnce ==
    /\ [](dataProcessor.loadState # "idle" => isLoaded)
    /\ []((pointerListeners \/ map.routeAttached \/ map.layers # {})
             => (isLoaded /\ dataProcessor.loadState = "loaded"))
    /\ [][/\ (dataProcessor.loadState = "idle" /\ dataProcessor'.loadState # "idle")
               => (lastOp'.op = "load" /\ ~isLoaded /\ isLoaded'
                   /\ dataProcessor'.loadState = "pending")
          /\ lastOp'.op = "dataOk"
               => (/\ isLoaded
                   /\ dataProcessor.loadState = "pending"
                   /\ dataProcessor'.loadState = "loaded"
                   /\ ~pointerListeners /\ pointerListeners'
                   /\ ~map.routeAttached /\ map.layers = {}
                   /\ map'.routeAttached /\ map'.layers = {"capitals", "route"})
          /\ (~pointerListeners /\ pointerListeners') => lastOp'.op = "dataOk"
          /\ dataProcessor.loadState = "loaded"
               => (dataProcessor'.loadState = "loaded" /\ lastOp'.op # "dataOk")
         ]_vars

C19_Witness ==
    /\ lastOp.op = "dataOk"
    /\ isLoaded
    /\ pointerListeners
    /\ AllAttached
    /\ map.routeData = dataProcessor.arcLines

\* C20: _isLoaded never goes back to false; a handler is invoked once, by
\* the 'load' event, exactly when it was registered before the event; a
\* registration after the event leaves _initialLoadHandlers as it was, and
\* nothing is invoked after the event.
C20_InitialLoadGuardOneWay ==
    /\ [](\A h \in HandlerIds :
             invoked[h] = IF isLoaded /\ h \in Range(initialLoadHandlers)
                          THEN 1 ELSE 0)
    /\ [][isLoaded => (isLoaded' /\ invoked' = invoked
                       /\ initialLoadHandlers' = initialLoadHandlers)]_vars
    /\ [][lastOp'.op = "addHandler"
            => (/\ isLoaded' = isLoaded
                /\ invoked' = invoked
                /\ lastOp'.changed = ~isLoaded
                /\ ~isLoaded => initialLoadHandlers'
                                   = Append(initialLoadHandlers, lastOp'.arg))]_vars

C20_Witness ==
    /\ isLoaded
    /\ Len(initialLoadHandlers) = 2
    /\ invoked[1] = 1
    /\ lastOp.op = "addHandler"
    /\ ~lastOp.changed
    /\ invoked[lastOp.arg] = 0

\* C21: a changeTheme issued while no 'route' source with feature data is
\* attached to the widget (the data is still loading, the load failed, or a
\* style swap is pending) is rejected with the notice "Layer not found" and
\* leaves the widget as it was: no style swap is requested and no style-ready
\* listener is registered, so an idle theme axis stays idle.
C21_ThemeChangeWithoutRouteRejected ==
    [][(lastOp'.op = "theme" /\ ~map.routeAttached)
         => (/\ ~lastOp'.changed
             /\ lastOp'.notice = "Layer not found"
             /\ map' = map
             /\ ThemeChanging' = ThemeChanging)]_vars

C21_Witness ==
    /\ lastOp.op = "theme"
    /\ ~lastOp.changed
    /\ lastOp.notice = "Layer not found"
    /\ ~ThemeChanging
    /\ ~map.routeAttached
    /\ map.once = <<>>
    /\ map.style = DefaultTheme
    /\ styling.theme # DefaultTheme

\* C22: under every sequence of 'mouseenter' and 'mouseleave' events the
\* widget delivers for the 'route' layer, at most one route feature has the
\* feature state hover = true, and it is the one hoverId names; after a
\* 'mouseleave', and until the next 'mouseenter', no route feature has
\* hover = true and hoverId is null.
C22_AtMostOneRouteHovered ==
    /\ Cardinality(map.hover) <= 1
    /\ map.hover \subseteq {hoverId}
    /\ lastOp.op = "mouseleave" => (map.hover = {} /\ hoverId = NoFeature)
    /\ ~map.mousein => (map.hover = {} /\ hoverId = NoFeature)

C22_Witness ==
    /\ lastOp.op = "mouseleave"
    /\ AllAttached
    /\ ~ThemeChanging
    /\ map.hover = {}
    /\ hoverId = NoFeature
    /\ map.style # DefaultTheme

====
